---- MODULE Spec2Model ----
(***************************************************************************)
(* Model of lab_6_pipeline/pipeline.py: dataset validation and scanning   *)
(* (CorpusManager), tag conversion (MystemTagConverter), token            *)
(* classification (MorphologicalAnalysisPipeline._process), CONLL-U       *)
(* serialisation (ConlluToken / ConlluSentence) and the run() loop; and of *)
(* lab_5_scrapper/scrapper.py: the seed-page loop of Crawler.find_articles.*)
(*                                                                         *)
(* Python strings are modelled as sequences of one-character strings      *)
(* (token texts, grammar strings) or of atoms (serialised fields), so     *)
(* that matching, stripping and joining are computed, not assumed.        *)
(***************************************************************************)
EXTENDS Integers, Sequences, FiniteSets, TLC

VARIABLES
    pc,           \* position of main(): "init", "scan", "run", "done", "failed"
    path_kind,    \* what path_to_raw_txt_data points at: "missing", "file", "dir"
    raw_files,    \* *_raw.txt files of the directory: id -> "absent" | "empty" | "full"
    meta_files,   \* *_meta.json files of the directory: id -> "absent" | "empty" | "full"
    exc,          \* the exception that ended main(), or "none"
    storage,      \* CorpusManager._storage as an insertion-ordered list of articles, or <<>>
    has_storage,  \* TRUE once self._storage has been assigned
    files_read,   \* ids of the raw files from_raw has read
    run_idx,      \* index in storage of the article run() is working on
    run_step,     \* position inside the body of run()'s loop
    process_log,  \* ids of the articles _process was called for, in call order
    artifacts,    \* the files written by to_cleaned / to_conllu: <<id, kind>> -> content
    first_run,    \* what the first call of run() left behind, once run() is called again
    tag_mapping,  \* TagConverter._tag_mapping
    gr_in,        \* a grammar string handed to the converter
    conv_out,     \* what the converter returned for gr_in
    oc_tags,      \* a structured OpenCorpora tag handed to the OpenCorpora converter
    oc_out,       \* what the OpenCorpora converter returned for oc_tags
    token_in,     \* one raw analyzer token
    token_out,    \* what the body of the token loop of _process did with it
    text_in,      \* an article text, as the sentence splitter and analyzer see it
    process_out,  \* what _process returned for text_in
    conllu_out,   \* the serialisations of the sentences of process_out
    pages,        \* what the seed URLs answer: per seed, a status and its link elements
    total_articles, \* Config.get_num_articles()
    crawler       \* Crawler.urls, the position of find_articles and the requests made

vars == <<pc, path_kind, raw_files, meta_files, exc, storage, has_storage,
          files_read, run_idx, run_step, process_log, artifacts, first_run,
          tag_mapping, gr_in, conv_out, oc_tags, oc_out, token_in, token_out, text_in, process_out,
          conllu_out, pages, total_articles, crawler>>

pipelineVars == <<pc, path_kind, raw_files, meta_files, exc, storage, has_storage,
                  files_read, run_idx, run_step, process_log, artifacts, first_run>>
crawlerVars == <<pages, total_articles, crawler>>
mainVars == <<pipelineVars, crawlerVars>>
convVars == <<gr_in, conv_out, oc_tags, oc_out>>
tokenVars == <<token_in, token_out>>
processVars == <<text_in, process_out, conllu_out>>

----------------------------------------------------------------------------
(* Bounds *)
MaxId == 4          \* article ids are 1..MaxId
MaxGrLen == 3       \* length of the exhaustively enumerated grammar strings
MaxTextLen == 2     \* length of the exhaustively enumerated token texts
MaxTokens == 2      \* raw tokens per sentence
MaxSentences == 2   \* sentences per article
MaxReruns == 1      \* calls of run() after the first one
MaxSeeds == 2       \* seed URLs of the crawler's configuration
MaxLinks == 2       \* link elements of a seed page
MaxArticles == 2    \* total_articles of the crawler's configuration

----------------------------------------------------------------------------
(* Generic helpers *)

None == "None"

\* an exception: its class and its message
Exc(type, msg) == [type |-> type, msg |-> msg]
NoExc == Exc("none", "")

SeqsUpTo(S, n) == UNION {[1..k -> S] : k \in 0..n}

RECURSIVE Concat(_)
Concat(ss) == IF ss = <<>> THEN <<>> ELSE Head(ss) \o Concat(Tail(ss))

\* str.join: the items separated by sep
RECURSIVE Join(_, _)
Join(sep, items) ==
    IF items = <<>> THEN <<>>
    ELSE IF Len(items) = 1 THEN Head(items)
    ELSE Head(items) \o sep \o Join(sep, Tail(items))

----------------------------------------------------------------------------
(* TagConverter: category names and the mapping table *)

\* attribute values of core_utils TagConverter
pos == "POS"
case == "Case"
number == "Number"
gender == "Gender"
animacy == "Animacy"
tense == "Tense"

\* the order Python's string comparison gives the category names
CatRank == [c \in {animacy, case, gender, number, tense} |->
              CASE c = animacy -> 1 [] c = case -> 2 [] c = gender -> 3
                [] c = number -> 4 [] c = tense -> 5]

\* Grammar-string alphabet: "S", "N" are ASCII capitals, "m", "e" stand for
\* lowercase Cyrillic letters, "," is a separator as Mystem writes them.
GrUpper == {"S", "N"}
GrLower == {"m", "e"}
GrChars == GrUpper \cup GrLower \cup {","}

\* the full table the mappings of the model are cut from
FullTable ==
    [c \in {case, number, gender, animacy, tense} |->
        CASE c = case    -> (<<"m">> :> "Nom"  @@ <<"e">> :> "Gen")
          [] c = number  -> (<<"m">> :> "Sing" @@ <<"e">> :> "Plur")
          [] c = gender  -> (<<"m">> :> "Masc" @@ <<"e">> :> "Fem")
          [] c = animacy -> (<<"m">> :> "Anim" @@ <<"e">> :> "Inan")
          [] c = tense   -> (<<"m">> :> "Past" @@ <<"e">> :> "Pres")]

PosTable == (<<"S">> :> "NOUN" @@ <<"N">> :> "NUM" @@ <<"S", "S">> :> "ADV")

Restrict(f, D) == [x \in (DOMAIN f) \cap D |-> f[x]]

\* a mapping file in which no native tag belongs to two categories
DefaultMapping ==
    [c \in {pos, case, number, gender, animacy, tense} |->
        CASE c = pos     -> PosTable
          [] c = case    -> Restrict(FullTable[case], {<<"m">>})
          [] c = number  -> Restrict(FullTable[number], {<<"e">>})
          [] c = gender  -> Restrict(FullTable[gender], {})
          [] c = animacy -> Restrict(FullTable[animacy], {})
          [] c = tense   -> Restrict(FullTable[tense], {})]

Mappings ==
    {[c \in {pos, case, number, gender, animacy, tense} |->
        IF c = pos THEN PosTable ELSE Restrict(FullTable[c], d[c])] :
     d \in [{case, number, gender, animacy, tense} ->
              {{}, {<<"m">>}, {<<"m">>, <<"e">>}}]}

----------------------------------------------------------------------------
(* Regular-expression helpers *)

\* the maximal runs of characters of Class in s, left to right; cur is the
\* run being collected when position i is reached
RECURSIVE RunsFrom(_, _, _, _)
RunsFrom(s, i, cur, Class) ==
    IF i > Len(s)
    THEN (IF cur = <<>> THEN <<>> ELSE <<cur>>)
    ELSE IF s[i] \in Class
         THEN RunsFrom(s, i + 1, Append(cur, s[i]), Class)
         ELSE (IF cur = <<>> THEN <<>> ELSE <<cur>>) \o RunsFrom(s, i + 1, <<>>, Class)

\* re.findall(r'[class]+', s)
re_findall(Class, s) == RunsFrom(s, 1, <<>>, Class)

\* re.search(r'[class]+', s): the first run, or None
re_search(Class, s) ==
    IF re_findall(Class, s) = <<>> THEN None ELSE Head(re_findall(Class, s))

----------------------------------------------------------------------------
(* MystemTagConverter *)

EmptyDict == [x \in {} |-> None]

CategoryOrder == <<case, number, gender, animacy, tense>>

\* CategoryLoop without the "category not in ud_tags" test
RECURSIVE CategoryLoop_Overwrite(_, _, _)
CategoryLoop_Overwrite(tag, ud_tags, k) ==
    IF k > Len(CategoryOrder) THEN ud_tags
    ELSE LET category == CategoryOrder[k] IN
         IF tag \in DOMAIN tag_mapping[category]
         THEN (category :> tag_mapping[category][tag]) @@ ud_tags
         ELSE CategoryLoop_Overwrite(tag, ud_tags, k + 1)

\* the inner for-loop over the categories, from the k-th category on
RECURSIVE CategoryLoop(_, _, _)
CategoryLoop(tag, ud_tags, k) ==
    IF k > Len(CategoryOrder) THEN ud_tags
    ELSE LET category == CategoryOrder[k] IN
         IF tag \in DOMAIN tag_mapping[category] /\ category \notin DOMAIN ud_tags
         THEN ud_tags @@ (category :> tag_mapping[category][tag])
         ELSE CategoryLoop(tag, ud_tags, k + 1)

\* the outer for-loop over tag_list
RECURSIVE TagLoop(_, _)
TagLoop(tag_list, ud_tags) ==
    IF tag_list = <<>> THEN ud_tags
    ELSE TagLoop(Tail(tag_list), CategoryLoop(Head(tag_list), ud_tags, 1))

\* the ud_tags dictionary built by convert_morphological_tags
ud_tags_of(tags) == TagLoop(re_findall(GrLower, tags), EmptyDict)

\* sorted(ud_tags.items()): the (category, value) pairs by category name
RECURSIVE sorted_items(_)
sorted_items(ud_tags) ==
    IF DOMAIN ud_tags = {} THEN <<>>
    ELSE LET first == CHOOSE c \in DOMAIN ud_tags :
                          \A d \in DOMAIN ud_tags : CatRank[c] <= CatRank[d]
         IN <<<<first, ud_tags[first]>>>> \o
            sorted_items([c \in DOMAIN ud_tags \ {first} |-> ud_tags[c]])

\* f'{cat}={val}'
FormatPair(item) == <<item[1], "=", item[2]>>

convert_morphological_tags(tags) ==
    LET items == sorted_items(ud_tags_of(tags))
    IN Join(<<"|">>, [i \in 1..Len(items) |-> FormatPair(items[i])])

\* convert_pos: the value returned, or the exception raised
convert_pos(tags) ==
    LET m == re_search(GrUpper, tags) IN
    IF m = None THEN [exc |-> "TypeError", val |-> None]
    ELSE IF m \notin DOMAIN tag_mapping[pos] THEN [exc |-> "KeyError", val |-> None]
    ELSE [exc |-> "none", val |-> tag_mapping[pos][m]]

----------------------------------------------------------------------------
(* OpenCorporaTagConverter. A structured tag is a record of the attributes *)
(* POS, case, number, gender, animacy; an attribute the tag does not have  *)
(* is None, written <<>> (it is falsy, as the empty string is).            *)

Absent == <<>>

UNKN == <<"U", "N", "K", "N">>

\* dict.get(key, default)
Get(dict, key, default) == IF key \in DOMAIN dict THEN dict[key] ELSE default

\* parsed_tags.items(): the dict literal keeps the order it is written in
parsed_tags(tags) ==
    << <<case, tags.case>>, <<number, tags.number>>,
       <<gender, tags.gender>>, <<animacy, tags.animacy>> >>

\* the loop over parsed_tags.items(), appending to tags_list
RECURSIVE TagsListLoop(_, _)
TagsListLoop(items, tags_list) ==
    IF items = <<>> THEN tags_list
    ELSE LET category == Head(items)[1]
             value == Head(items)[2]
         IN IF value # Absent /\ value \in DOMAIN Get(tag_mapping, category, EmptyDict)
            THEN LET mapped_value == tag_mapping[category][value]
                 IN TagsListLoop(Tail(items),
                                 Append(tags_list, <<category, "=", mapped_value>>))
            ELSE TagsListLoop(Tail(items), tags_list)

\* oc_convert_morphological_tags with the pairs ordered by category name
oc_convert_morphological_tags_Sorted(tags) ==
    Join(<<"|">>, TagsListLoop(<< <<animacy, tags.animacy>>, <<case, tags.case>>,
                                  <<gender, tags.gender>>, <<number, tags.number>> >>,
                               <<>>))

\* OpenCorporaTagConverter.convert_morphological_tags
oc_convert_morphological_tags(tags) ==
    Join(<<"|">>, TagsListLoop(parsed_tags(tags), <<>>))

\* OpenCorporaTagConverter.convert_pos
oc_convert_pos(tags) ==
    LET oc_pos == tags.POS
    IN Get(tag_mapping[pos], oc_pos, Get(tag_mapping[pos], UNKN, None))

----------------------------------------------------------------------------
(* Token texts *)

\* "a", "A" are letters, "1" a digit, "_" the underscore, " " the space,
\* "\t" the tab, "." the period and "," any other punctuation mark
Chars == {"a", "A", "1", "_", " ", "\t", ".", ","}

IsAlphaChar(c) == c \in {"a", "A"}
IsDigitChar(c) == c = "1"
\* \w of the re module
IsWordChar(c) == IsAlphaChar(c) \/ IsDigitChar(c) \/ c = "_"

\* the length of the longest prefix of text[i..] made of word characters
RECURSIVE WordRun(_, _)
WordRun(text, i) ==
    IF i > Len(text) \/ ~IsWordChar(text[i]) THEN 0 ELSE 1 + WordRun(text, i + 1)

\* word_regex.fullmatch(text) in place of word_regex.match(text)
word_regex_fullmatch(text) ==
    IF text # <<>> /\ WordRun(text, 1) = Len(text)
    THEN [matched |-> TRUE, group |-> text]
    ELSE IF text = <<".">>
         THEN [matched |-> TRUE, group |-> text]
         ELSE [matched |-> FALSE, group |-> <<>>]

\* word_regex.match(text) for word_regex = re.compile(r'\w+|[.]'): the match
\* is anchored at the start of text only
word_regex_match(text) ==
    IF WordRun(text, 1) > 0
    THEN [matched |-> TRUE, group |-> SubSeq(text, 1, WordRun(text, 1))]
    ELSE IF text # <<>> /\ text[1] = "."
         THEN [matched |-> TRUE, group |-> <<".">>]
         ELSE [matched |-> FALSE, group |-> <<>>]

\* text.replace(' ', '')
RemoveSpaces(text) == SelectSeq(text, LAMBDA c : c # " ")

\* str.isalpha / str.isdigit: false on the empty string
isalpha(text) == text # <<>> /\ \A i \in 1..Len(text) : IsAlphaChar(text[i])
isdigit(text) == text # <<>> /\ \A i \in 1..Len(text) : IsDigitChar(text[i])

----------------------------------------------------------------------------
(* MorphologicalAnalysisPipeline._process *)

\* ConlluToken with its MorphologicalTokenDTO
ConlluToken(text, position, lemma, p, tags) ==
    [text |-> text, position |-> position, lemma |-> lemma, pos |-> p, tags |-> tags]

NoToken == ConlluToken(<<>>, 0, <<>>, "", <<>>)

\* Classify reading the last candidate of the analysis, not the first
Classify_LastCandidate(token, text) ==
    IF isalpha(text)
    THEN IF token.has_analysis /\ token.analysis # <<>>
         THEN LET lemma == token.analysis[Len(token.analysis)].lex
                  gram_info == token.analysis[Len(token.analysis)].gr
                  p == convert_pos(gram_info)
              IN IF p.exc # "none"
                 THEN [exc |-> p.exc, lemma |-> <<>>, pos |-> "", tags |-> <<>>]
                 ELSE [exc |-> "none", lemma |-> lemma, pos |-> p.val,
                       tags |-> convert_morphological_tags(gram_info)]
         ELSE [exc |-> "none", lemma |-> text, pos |-> "X", tags |-> <<>>]
    ELSE IF isdigit(text)
         THEN [exc |-> "none", lemma |-> text, pos |-> "NUM", tags |-> <<>>]
         ELSE [exc |-> "none", lemma |-> text, pos |-> "PUNCT", tags |-> <<>>]

\* the if/elif/else of the token loop: lemma, pos and tags of a kept token
\* whose text has had its spaces removed, or the exception convert_pos raised
Classify(token, text) ==
    IF isalpha(text)
    THEN IF token.has_analysis /\ token.analysis # <<>>
         THEN LET lemma == token.analysis[1].lex
                  gram_info == token.analysis[1].gr
                  p == convert_pos(gram_info)
              IN IF p.exc # "none"
                 THEN [exc |-> p.exc, lemma |-> <<>>, pos |-> "", tags |-> <<>>]
                 ELSE [exc |-> "none", lemma |-> lemma, pos |-> p.val,
                       tags |-> convert_morphological_tags(gram_info)]
         ELSE [exc |-> "none", lemma |-> text, pos |-> "X", tags |-> <<>>]
    ELSE IF isdigit(text)
         THEN [exc |-> "none", lemma |-> text, pos |-> "NUM", tags |-> <<>>]
         ELSE [exc |-> "none", lemma |-> text, pos |-> "PUNCT", tags |-> <<>>]

\* TokenBody with sentence_counter incremented ahead of the filter
TokenBody_CountsSkipped(token, sentence_counter) ==
    IF ~word_regex_match(token.text).matched
    THEN [kind |-> "skip", exc |-> "none", counter |-> sentence_counter + 1,
          conllu_token |-> NoToken]
    ELSE LET text == RemoveSpaces(token.text)
             c == Classify(token, text)
         IN IF c.exc # "none"
            THEN [kind |-> "raise", exc |-> c.exc, counter |-> sentence_counter + 1,
                  conllu_token |-> NoToken]
            ELSE [kind |-> "token", exc |-> "none", counter |-> sentence_counter + 1,
                  conllu_token |-> ConlluToken(text, sentence_counter + 1,
                                               c.lemma, c.pos, c.tags)]

\* one pass through the body of the token loop
TokenBody(token, sentence_counter) ==
    IF ~word_regex_match(token.text).matched
    THEN [kind |-> "skip", exc |-> "none", counter |-> sentence_counter,
          conllu_token |-> NoToken]
    ELSE LET text == RemoveSpaces(token.text)
             c == Classify(token, text)
         IN IF c.exc # "none"
            THEN [kind |-> "raise", exc |-> c.exc, counter |-> sentence_counter + 1,
                  conllu_token |-> NoToken]
            ELSE [kind |-> "token", exc |-> "none", counter |-> sentence_counter + 1,
                  conllu_token |-> ConlluToken(text, sentence_counter + 1,
                                               c.lemma, c.pos, c.tags)]

\* the token loop over mystem_analysis from its i-th record on
RECURSIVE TokenLoop(_, _, _, _)
TokenLoop(mystem_analysis, i, sentence_counter, conllu_tokens) ==
    IF i > Len(mystem_analysis)
    THEN [exc |-> "none", tokens |-> conllu_tokens]
    ELSE LET b == TokenBody(mystem_analysis[i], sentence_counter) IN
         IF b.kind = "raise" THEN [exc |-> b.exc, tokens |-> <<>>]
         ELSE IF b.kind = "skip"
              THEN TokenLoop(mystem_analysis, i + 1, b.counter, conllu_tokens)
              ELSE TokenLoop(mystem_analysis, i + 1, b.counter,
                             Append(conllu_tokens, b.conllu_token))

\* the sentence loop; split is split_by_sentence(text), each sentence carrying
\* what self._mystem_analyzer.analyze returns for it (or that it raises)
RECURSIVE SentenceLoop(_, _, _)
SentenceLoop(split, sentence_idx, sentences) ==
    IF sentence_idx >= Len(split)
    THEN [exc |-> "none", sentences |-> sentences]
    ELSE LET sentence == split[sentence_idx + 1] IN
         IF sentence.analyzer_raises
         THEN [exc |-> "AnalyzerError", sentences |-> <<>>]
         ELSE LET r == TokenLoop(sentence.analysis, 1, 0, <<>>) IN
              IF r.exc # "none" THEN [exc |-> r.exc, sentences |-> <<>>]
              ELSE SentenceLoop(split, sentence_idx + 1,
                       Append(sentences, [position |-> sentence_idx,
                                          text |-> sentence.text,
                                          tokens |-> r.tokens]))

process(text) == SentenceLoop(text, 0, <<>>)

----------------------------------------------------------------------------
(* CONLL-U serialisation: ConlluToken and ConlluSentence *)

\* str(n) for the small non-negative integers of the model
Digits == <<"1", "2", "3", "4", "5", "6", "7", "8", "9">>
str(n) == IF n = 0 THEN <<"0">> ELSE IF n <= 9 THEN <<Digits[n]>>
          ELSE <<Digits[n \div 10]>> \o (IF n % 10 = 0 THEN <<"0">> ELSE <<Digits[n % 10]>>)

\* get_conllu_text that does not look at include_morphological_tags
token_get_conllu_text_AlwaysTags(token, include_morphological_tags) ==
    LET feats == IF token.tags # <<>> THEN token.tags ELSE <<"_">>
    IN Join(<<"\t">>, <<str(token.position), token.text, token.lemma, <<token.pos>>,
                        <<"_">>, feats, <<"0">>, <<"root">>, <<"_">>, <<"_">>>>)

\* ConlluToken.get_conllu_text
token_get_conllu_text(token, include_morphological_tags) ==
    LET position == str(token.position)
        text == token.text
        lemma == token.lemma
        p == <<token.pos>>
        xpos == <<"_">>
        feats == IF include_morphological_tags /\ token.tags # <<>>
                 THEN token.tags ELSE <<"_">>
        head == <<"0">>
        deprel == <<"root">>
        deps == <<"_">>
        misc == <<"_">>
    IN Join(<<"\t">>, <<position, text, lemma, p, xpos, feats, head, deprel, deps, misc>>)

\* str.lower
Lower(c) == IF c = "A" THEN "a" ELSE c

\* ConlluToken.get_cleaned: re.sub(r'\W+', '', text.lower())
get_cleaned(token) ==
    SelectSeq([i \in 1..Len(token.text) |-> Lower(token.text[i])], IsWordChar)

\* ConlluSentence._format_tokens
format_tokens(sentence, include_morphological_tags) ==
    Join(<<"\n">>, [i \in 1..Len(sentence.tokens) |->
                      token_get_conllu_text(sentence.tokens[i], include_morphological_tags)])

\* ConlluSentence.get_conllu_text
sentence_get_conllu_text(sentence, include_morphological_tags) ==
    <<"# sent_id = ">> \o str(sentence.position) \o <<"\n", "# text = ">>
        \o sentence.text \o <<"\n">>
        \o format_tokens(sentence, include_morphological_tags) \o <<"\n">>

\* str.strip for the space-joined cleaned tokens
RECURSIVE lstrip(_)
lstrip(t) == IF t # <<>> /\ Head(t) = " " THEN lstrip(Tail(t)) ELSE t
RECURSIVE rstrip(_)
rstrip(t) == IF t # <<>> /\ t[Len(t)] = " " THEN rstrip(SubSeq(t, 1, Len(t) - 1)) ELSE t
strip(t) == rstrip(lstrip(t))

\* ConlluSentence.get_cleaned_sentence
get_cleaned_sentence(sentence) ==
    LET cleaned == [i \in 1..Len(sentence.tokens) |-> get_cleaned(sentence.tokens[i])]
    IN strip(Join(<<" ">>, SelectSeq(cleaned, LAMBDA t : t # <<>>)))

\* the content to_conllu writes for an article: its sentences' texts in order
to_conllu(sentences, include_morphological_tags) ==
    Concat([i \in 1..Len(sentences) |->
              sentence_get_conllu_text(sentences[i], include_morphological_tags)])

\* the content to_cleaned writes for an article: one cleaned sentence per line
to_cleaned(sentences) ==
    Join(<<"\n">>, [i \in 1..Len(sentences) |-> get_cleaned_sentence(sentences[i])])

----------------------------------------------------------------------------
(* Analyzer output used as input of the model *)

Candidate(lex, gr) == [lex |-> lex, gr |-> gr]

\* the 'analysis' lists of the model: none, resolvable ones (the second with
\* a different second candidate), one mapped to NUM, one without features,
\* one with no capital run and one whose capital run is not in the table
AnalysisChoices ==
    { <<>>,
      <<Candidate(<<"l">>, <<"S", ",", "m", ",", "e">>)>>,
      <<Candidate(<<"l">>, <<"S", ",", "e">>), Candidate(<<"k">>, <<"N", "S">>)>>,
      <<Candidate(<<"l">>, <<"N", ",", "m">>)>>,
      <<Candidate(<<"l">>, <<"S", "S">>)>>,
      <<Candidate(<<"l">>, <<"m", ",", "e">>)>>,
      <<Candidate(<<"l">>, <<"N", "S", ",", "m">>)>> }

RawToken(text, has_analysis, analysis) ==
    [text |-> text, has_analysis |-> has_analysis, analysis |-> analysis]

RawTokens ==
    {RawToken(t, h, a) : t \in SeqsUpTo(Chars, MaxTextLen), h \in {TRUE},
                         a \in AnalysisChoices}
    \cup {RawToken(t, FALSE, <<>>) : t \in SeqsUpTo(Chars, MaxTextLen)}

----------------------------------------------------------------------------
(* Values of the variables a specification does not use *)

\* no call of run() has been repeated yet
NoFirstRun == [reruns |-> 0, artifacts |-> EmptyDict, storage |-> <<>>, exc |-> NoExc]

IdlePipeline ==
    /\ pc = "idle" /\ path_kind = "dir"
    /\ raw_files = <<>> /\ meta_files = <<>>
    /\ exc = NoExc /\ storage = <<>> /\ has_storage = FALSE
    /\ files_read = {} /\ run_idx = 0 /\ run_step = "idle"
    /\ process_log = <<>> /\ artifacts = EmptyDict
    /\ first_run = NoFirstRun
NoCrawler == [pc |-> "idle", seed_idx |-> 0, elem_idx |-> 0, urls |-> <<>>,
              requested |-> <<>>]
IdleCrawler == pages = <<>> /\ total_articles = 1 /\ crawler = NoCrawler
IdleMain == IdlePipeline /\ IdleCrawler
NoConv == [done |-> FALSE, pos |-> [exc |-> "none", val |-> None],
           ud_tags |-> EmptyDict, tags |-> <<>>]
NoTags == [POS |-> Absent, case |-> Absent, number |-> Absent, gender |-> Absent,
           animacy |-> Absent]
NoOCOut == [done |-> FALSE, pos |-> None, tags |-> <<>>]
IdleOC == oc_tags = NoTags /\ oc_out = NoOCOut
IdleConv == gr_in = <<>> /\ conv_out = NoConv /\ IdleOC
NoProcess == [done |-> FALSE, exc |-> "none", sentences |-> <<>>]
NoConllu == [done |-> FALSE, plain |-> <<>>, tagged |-> <<>>, cleaned |-> <<>>]
IdleProcess == text_in = <<>> /\ process_out = NoProcess /\ conllu_out = NoConllu
NoTokenOut == [done |-> FALSE, kind |-> "skip", exc |-> "none", counter |-> 0,
               conllu_token |-> NoToken, serialised |-> FALSE,
               plain |-> <<>>, tagged |-> <<>>]
IdleToken == token_in = RawToken(<<>>, FALSE, <<>>) /\ token_out = NoTokenOut

----------------------------------------------------------------------------
(* Specification of the converter alone: a mapping file and a grammar     *)
(* string are drawn, then both conversions are applied.                   *)

GrSamples ==
    { <<"S", ",", "m", ",", "e">>,
      <<"m", ",", "m", ",", "m">>,
      <<"e", ",", "m", ",", "e">>,
      <<"N", ",", "e", ",", "m", "e">>,
      <<"m", "e", ",", "m">> }

GrStrings == SeqsUpTo({"S", "m", "e", ","}, MaxGrLen) \cup GrSamples

InitConv ==
    /\ tag_mapping \in Mappings
    /\ gr_in \in GrStrings
    /\ conv_out = NoConv
    /\ IdleOC
    /\ IdleMain /\ IdleToken /\ IdleProcess

Convert ==
    /\ ~conv_out.done
    /\ conv_out' = [done |-> TRUE,
                    pos |-> convert_pos(gr_in),
                    ud_tags |-> ud_tags_of(gr_in),
                    tags |-> convert_morphological_tags(gr_in)]
    /\ UNCHANGED <<gr_in, oc_tags, oc_out, tag_mapping, mainVars, tokenVars, processVars>>

NextConv == Convert

SpecConv == InitConv /\ [][NextConv]_vars

----------------------------------------------------------------------------
(* Specification of the OpenCorpora converter alone: a mapping file and a *)
(* structured tag are drawn, then both conversions are applied.           *)

\* every category mapped in full
FullMapping ==
    [c \in {pos, case, number, gender, animacy, tense} |->
        IF c = pos THEN PosTable ELSE FullTable[c]]

\* mapping files: the four categories cut in every way, with and without an
\* UNKN entry for the part of speech, and files that lack a category
OCMappings ==
    {[m EXCEPT ![pos] = t] :
        m \in {x \in Mappings : DOMAIN x[tense] = {}},
        t \in {PosTable, (UNKN :> "X") @@ PosTable}}
    \cup {Restrict(FullMapping, DOMAIN FullMapping \ {c}) :
            c \in {case, number, gender, animacy}}

OCValues == {Absent, <<"m">>, <<"e">>}

OCTags ==
    [POS : {Absent, <<"S">>, <<"m">>}, case : OCValues, number : OCValues,
     gender : OCValues, animacy : OCValues]

InitOC ==
    /\ tag_mapping \in OCMappings
    /\ oc_tags \in OCTags
    /\ oc_out = NoOCOut
    /\ gr_in = <<>> /\ conv_out = NoConv
    /\ IdleMain /\ IdleToken /\ IdleProcess

ConvertOC ==
    /\ ~oc_out.done
    /\ oc_out' = [done |-> TRUE,
                  pos |-> oc_convert_pos(oc_tags),
                  tags |-> oc_convert_morphological_tags(oc_tags)]
    /\ UNCHANGED <<oc_tags, gr_in, conv_out, tag_mapping, mainVars, tokenVars,
                   processVars>>

NextOC == ConvertOC

SpecOC == InitOC /\ [][NextOC]_vars

----------------------------------------------------------------------------
(* Specification of the token loop body alone: one raw token is drawn,    *)
(* filtered and classified, then serialised both ways.                    *)

InitToken ==
    /\ tag_mapping = DefaultMapping
    /\ token_in \in RawTokens
    /\ token_out = NoTokenOut
    /\ IdleMain /\ IdleConv /\ IdleProcess

ApplyTokenBody ==
    /\ ~token_out.done
    /\ LET b == TokenBody(token_in, 0) IN
       token_out' = [token_out EXCEPT !.done = TRUE, !.kind = b.kind, !.exc = b.exc,
                                      !.counter = b.counter,
                                      !.conllu_token = b.conllu_token]
    /\ UNCHANGED <<token_in, tag_mapping, mainVars, convVars, processVars>>

SerialiseToken ==
    /\ token_out.done /\ token_out.kind = "token" /\ ~token_out.serialised
    /\ token_out' = [token_out EXCEPT
                        !.serialised = TRUE,
                        !.plain = token_get_conllu_text(token_out.conllu_token, FALSE),
                        !.tagged = token_get_conllu_text(token_out.conllu_token, TRUE)]
    /\ UNCHANGED <<token_in, tag_mapping, mainVars, convVars, processVars>>

NextToken == ApplyTokenBody \/ SerialiseToken

SpecToken == InitToken /\ [][NextToken]_vars

----------------------------------------------------------------------------
(* Specification of _process alone: an article text is drawn, processed   *)
(* and its sentences serialised.                                          *)

\* an analysed word and a comma
TokenPool ==
    { RawToken(<<"a">>, TRUE, <<Candidate(<<"l">>, <<"S", ",", "m", ",", "e">>)>>),
      RawToken(<<",">>, FALSE, <<>>) }

Sentence(analysis) ==
    [text |-> Concat([i \in 1..Len(analysis) |-> analysis[i].text]),
     analyzer_raises |-> FALSE, analysis |-> analysis]

FailingSentence == [text |-> <<"a">>, analyzer_raises |-> TRUE, analysis |-> <<>>]

\* a sentence longer than the enumerated ones, with a comma to discard
LongSentence ==
    Sentence(<< RawToken(<<"a">>, TRUE, <<Candidate(<<"l">>, <<"S", ",", "m", ",", "e">>)>>),
                RawToken(<<",">>, FALSE, <<>>),
                RawToken(<<"1">>, FALSE, <<>>),
                RawToken(<<".", " ">>, FALSE, <<>>) >>)

\* a word without analysis and a number
PlainSentence ==
    Sentence(<< RawToken(<<"A">>, TRUE, <<>>), RawToken(<<"1">>, FALSE, <<>>) >>)

\* the part of speech "NS" of the second word is not in the table
KeyErrorSentence ==
    Sentence(<< RawToken(<<"1">>, FALSE, <<>>),
                RawToken(<<"a">>, TRUE, <<Candidate(<<"l">>, <<"N", "S", ",", "m">>)>>) >>)

\* the grammar string of the word has no run of capitals
TypeErrorSentence ==
    Sentence(<< RawToken(<<"a">>, TRUE, <<Candidate(<<"l">>, <<"m", ",", "e">>)>>) >>)

SentenceInputs ==
    {Sentence(a) : a \in SeqsUpTo(TokenPool, MaxTokens)}
        \cup {FailingSentence, LongSentence, PlainSentence, KeyErrorSentence}

Articles == SeqsUpTo(SentenceInputs, MaxSentences)

InitProcess ==
    /\ tag_mapping = DefaultMapping
    /\ text_in \in Articles
    /\ process_out = NoProcess
    /\ conllu_out = NoConllu
    /\ IdleMain /\ IdleConv /\ IdleToken

Process ==
    /\ ~process_out.done
    /\ LET r == process(text_in) IN
       process_out' = [done |-> TRUE, exc |-> r.exc, sentences |-> r.sentences]
    /\ UNCHANGED <<text_in, conllu_out, tag_mapping, mainVars, convVars, tokenVars>>

Serialise ==
    /\ process_out.done /\ process_out.exc = "none" /\ ~conllu_out.done
    /\ conllu_out' = [done |-> TRUE,
                      plain |-> to_conllu(process_out.sentences, FALSE),
                      tagged |-> to_conllu(process_out.sentences, TRUE),
                      cleaned |-> to_cleaned(process_out.sentences)]
    /\ UNCHANGED <<text_in, process_out, tag_mapping, mainVars, convVars, tokenVars>>

NextProcess == Process \/ Serialise

SpecProcess == InitProcess /\ [][NextProcess]_vars

----------------------------------------------------------------------------
(* CorpusManager *)

Ids == 1..MaxId
FileStates == {"absent", "empty", "full"}

\* the ids of the files a glob pattern matches
Glob(files) == {i \in DOMAIN files : files[i] # "absent"}

\* sorted([...]) of a set of ids
RECURSIVE sorted(_)
sorted(S) == IF S = {} THEN <<>>
             ELSE LET m == CHOOSE x \in S : \A y \in S : x <= y
                  IN <<m>> \o sorted(S \ {m})

\* HasGap written with "> 2"
HasGap_AtLeastTwo(ind) == \E k \in 1..(Len(ind) - 1) : ind[k + 1] - ind[k] > 2

\* the loop over zip(ind, ind[1:]) finds id2 - id1 > 1
HasGap(ind) == \E k \in 1..(Len(ind) - 1) : ind[k + 1] - ind[k] > 1

\* validate_dataset with the count comparison ahead of the emptiness test
validate_dataset_CountFirst(kind, raw, meta) ==
    IF kind = "missing" THEN Exc("FileNotFoundError", "No such file or directory")
    ELSE IF kind # "dir" THEN Exc("NotADirectoryError", "Not a directory")
    ELSE LET meta_ids == Glob(meta)
             raw_ids == Glob(raw)
         IN IF Cardinality(meta_ids) # Cardinality(raw_ids)
            THEN Exc("InconsistentDatasetError", "Number of meta and raw files is not equal")
            ELSE IF raw_ids = {} THEN Exc("EmptyDirectoryError", "Directory is empty")
            ELSE IF HasGap(sorted(raw_ids))
            THEN Exc("InconsistentDatasetError", "Article IDs are not sequential")
            ELSE IF HasGap(sorted(meta_ids))
            THEN Exc("InconsistentDatasetError", "Article IDs in meta data are not sequential")
            ELSE IF (\E i \in raw_ids : raw[i] = "empty") \/ (\E i \in meta_ids : meta[i] = "empty")
            THEN Exc("InconsistentDatasetError", "")
            ELSE NoExc

\* CorpusManager._validate_dataset: the exception raised, or NoExc
validate_dataset(kind, raw, meta) ==
    IF kind = "missing" THEN Exc("FileNotFoundError", "No such file or directory")
    ELSE IF kind # "dir" THEN Exc("NotADirectoryError", "Not a directory")
    ELSE LET meta_ids == Glob(meta)
             raw_ids == Glob(raw)
             raw_ind == sorted(raw_ids)
             meta_ind == sorted(meta_ids)
         IN IF raw_ids = {} THEN Exc("EmptyDirectoryError", "Directory is empty")
            ELSE IF Cardinality(meta_ids) # Cardinality(raw_ids)
            THEN Exc("InconsistentDatasetError", "Number of meta and raw files is not equal")
            ELSE IF HasGap(raw_ind)
            THEN Exc("InconsistentDatasetError", "Article IDs are not sequential")
            ELSE IF HasGap(meta_ind)
            THEN Exc("InconsistentDatasetError", "Article IDs in meta data are not sequential")
            ELSE IF (\E i \in raw_ids : raw[i] = "empty") \/ (\E i \in meta_ids : meta[i] = "empty")
            THEN Exc("InconsistentDatasetError", "")
            ELSE NoExc

\* an article of the registry
Article(id, text) == [id |-> id, text |-> text, has_sentences |-> FALSE, sentences |-> <<>>]

----------------------------------------------------------------------------
(* The article texts of the whole-program specification *)

TextOk == << LongSentence, PlainSentence >>

TextKeyError == << PlainSentence, KeyErrorSentence >>

TextTypeError == << TypeErrorSentence >>

TextAnalyzerFails == << FailingSentence >>

TextSamples == {TextOk, TextKeyError, TextTypeError, TextAnalyzerFails}

\* the texts a raw file may hold, given the articles read before it: the
\* datasets of the model have at most one text whose processing fails
TextsAfter(articles) ==
    IF \A j \in 1..Len(articles) : articles[j].text = TextOk
    THEN TextSamples ELSE {TextOk}

----------------------------------------------------------------------------
(* main(): CorpusManager(ASSETS_PATH), then the two pipelines' run() *)

NoFiles == [i \in Ids |-> "absent"]

Init ==
    /\ tag_mapping = DefaultMapping
    /\ pc = "init"
    /\ path_kind \in {"missing", "file", "dir"}
    /\ raw_files \in [Ids -> FileStates]
    /\ meta_files \in [Ids -> FileStates]
    /\ (path_kind # "dir" => raw_files = NoFiles /\ meta_files = NoFiles)
    /\ exc = NoExc /\ storage = <<>> /\ has_storage = FALSE
    /\ files_read = {} /\ run_idx = 0 /\ run_step = "idle"
    /\ process_log = <<>> /\ artifacts = EmptyDict
    /\ first_run = NoFirstRun
    /\ IdleCrawler
    /\ IdleConv /\ IdleToken /\ IdleProcess

otherVars == <<tag_mapping, convVars, tokenVars, processVars, crawlerVars>>

\* Validate with self._storage = {} assigned before _validate_dataset()
Validate_StorageFirst ==
    /\ pc = "init"
    /\ has_storage' = TRUE /\ storage' = <<>>
    /\ LET e == validate_dataset(path_kind, raw_files, meta_files) IN
       IF e # NoExc
       THEN exc' = e /\ pc' = "failed"
       ELSE pc' = "scan" /\ UNCHANGED exc
    /\ UNCHANGED <<path_kind, raw_files, meta_files, files_read, run_idx, run_step,
                   process_log, artifacts, first_run, otherVars>>

\* CorpusManager.__init__ up to self._storage = {}
Validate ==
    /\ pc = "init"
    /\ LET e == validate_dataset(path_kind, raw_files, meta_files) IN
       IF e # NoExc
       THEN /\ exc' = e /\ pc' = "failed"
            /\ UNCHANGED <<storage, has_storage>>
       ELSE /\ pc' = "scan" /\ has_storage' = TRUE /\ storage' = <<>>
            /\ UNCHANGED exc
    /\ UNCHANGED <<path_kind, raw_files, meta_files, files_read, run_idx, run_step,
                   process_log, artifacts, first_run, otherVars>>

\* one pass of the loop of _scan_dataset: glob yields the raw files in the
\* directory's own order, from_raw reads the file
ScanFile ==
    /\ pc = "scan"
    /\ \E i \in Glob(raw_files) \ files_read : \E text \in TextsAfter(storage) :
          /\ files_read' = files_read \cup {i}
          /\ storage' = Append(storage, Article(i, text))
    /\ UNCHANGED <<pc, path_kind, raw_files, meta_files, exc, has_storage, run_idx,
                   run_step, process_log, artifacts, first_run, otherVars>>

\* _scan_dataset returns, the pipeline is constructed and run() entered
ScanDone ==
    /\ pc = "scan"
    /\ Glob(raw_files) \ files_read = {}
    /\ pc' = "run" /\ run_idx' = 1 /\ run_step' = "process"
    /\ UNCHANGED <<path_kind, raw_files, meta_files, exc, storage, has_storage,
                   files_read, process_log, artifacts, first_run, otherVars>>

\* RunProcess with the exception caught and the article skipped
RunProcess_Swallow ==
    /\ pc = "run" /\ run_step = "process" /\ run_idx <= Len(storage)
    /\ LET article == storage[run_idx]
           r == process(article.text)
       IN /\ process_log' = Append(process_log, article.id)
          /\ IF r.exc # "none"
             THEN /\ run_idx' = run_idx + 1
                  /\ UNCHANGED <<storage, run_step>>
             ELSE /\ storage' = [storage EXCEPT ![run_idx].has_sentences = TRUE,
                                                ![run_idx].sentences = r.sentences]
                  /\ run_step' = "to_cleaned"
                  /\ UNCHANGED run_idx
    /\ UNCHANGED <<pc, exc, path_kind, raw_files, meta_files, has_storage, files_read,
                   artifacts, first_run, otherVars>>

\* RunProcess with the new sentences appended to those the article holds
RunProcess_Append ==
    /\ pc = "run" /\ run_step = "process" /\ run_idx <= Len(storage)
    /\ LET article == storage[run_idx]
           r == process(article.text)
       IN /\ process_log' = Append(process_log, article.id)
          /\ IF r.exc # "none"
             THEN /\ exc' = Exc(r.exc, "") /\ pc' = "failed"
                  /\ UNCHANGED <<storage, run_step>>
             ELSE /\ storage' = [storage EXCEPT ![run_idx].has_sentences = TRUE,
                                                ![run_idx].sentences = @ \o r.sentences]
                  /\ run_step' = "to_cleaned"
                  /\ UNCHANGED <<exc, pc>>
    /\ UNCHANGED <<path_kind, raw_files, meta_files, has_storage, files_read, run_idx,
                   artifacts, first_run, otherVars>>

\* run(): article.set_conllu_sentences(self._process(article.text))
RunProcess ==
    /\ pc = "run" /\ run_step = "process" /\ run_idx <= Len(storage)
    /\ LET article == storage[run_idx]
           r == process(article.text)
       IN /\ process_log' = Append(process_log, article.id)
          /\ IF r.exc # "none"
             THEN /\ exc' = Exc(r.exc, "") /\ pc' = "failed"
                  /\ UNCHANGED <<storage, run_step>>
             ELSE /\ storage' = [storage EXCEPT ![run_idx].has_sentences = TRUE,
                                                ![run_idx].sentences = r.sentences]
                  /\ run_step' = "to_cleaned"
                  /\ UNCHANGED <<exc, pc>>
    /\ UNCHANGED <<path_kind, raw_files, meta_files, has_storage, files_read, run_idx,
                   artifacts, first_run, otherVars>>

\* run(): to_cleaned(article)
RunToCleaned ==
    /\ pc = "run" /\ run_step = "to_cleaned"
    /\ LET article == storage[run_idx] IN
       artifacts' = (<<article.id, "cleaned">> :> to_cleaned(article.sentences)) @@ artifacts
    /\ run_step' = "to_conllu_plain"
    /\ UNCHANGED <<pc, path_kind, raw_files, meta_files, exc, storage, has_storage,
                   files_read, run_idx, process_log, first_run, otherVars>>

\* run(): to_conllu(article, include_morphological_tags=False)
RunToConlluPlain ==
    /\ pc = "run" /\ run_step = "to_conllu_plain"
    /\ LET article == storage[run_idx] IN
       artifacts' = (<<article.id, "conllu">> :> to_conllu(article.sentences, FALSE))
                        @@ artifacts
    /\ run_step' = "to_conllu_tagged"
    /\ UNCHANGED <<pc, path_kind, raw_files, meta_files, exc, storage, has_storage,
                   files_read, run_idx, process_log, first_run, otherVars>>

\* RunToConlluTagged without the write
RunToConlluTagged_NoWrite ==
    /\ pc = "run" /\ run_step = "to_conllu_tagged"
    /\ run_step' = "process" /\ run_idx' = run_idx + 1
    /\ UNCHANGED <<pc, path_kind, raw_files, meta_files, exc, storage, has_storage,
                   files_read, process_log, artifacts, first_run, otherVars>>

\* run(): to_conllu(article, include_morphological_tags=True), next article
RunToConlluTagged ==
    /\ pc = "run" /\ run_step = "to_conllu_tagged"
    /\ LET article == storage[run_idx] IN
       artifacts' = (<<article.id, "conllu_tags">> :> to_conllu(article.sentences, TRUE))
                        @@ artifacts
    /\ run_step' = "process" /\ run_idx' = run_idx + 1
    /\ UNCHANGED <<pc, path_kind, raw_files, meta_files, exc, storage, has_storage,
                   files_read, process_log, first_run, otherVars>>

\* run() returns; AdvancedMorphologicalAnalysisPipeline's constructor and
\* run() have empty bodies, so main() returns
RunDone ==
    /\ pc = "run" /\ run_step = "process" /\ run_idx > Len(storage)
    /\ pc' = "done" /\ run_step' = "idle"
    /\ UNCHANGED <<path_kind, raw_files, meta_files, exc, storage, has_storage,
                   files_read, run_idx, process_log, artifacts, first_run, otherVars>>

Next ==
    \/ Validate \/ ScanFile \/ ScanDone
    \/ RunProcess \/ RunToCleaned \/ RunToConlluPlain \/ RunToConlluTagged \/ RunDone

Spec == Init /\ [][Next]_vars

----------------------------------------------------------------------------
(* run() called again on the same pipeline, over the unchanged registry *)

\* a caller enters run() again after it returned or raised; the first time,
\* what the first call left behind is remembered
Rerun ==
    /\ pc \in {"done", "failed"} /\ has_storage /\ run_idx >= 1
    /\ first_run.reruns < MaxReruns
    /\ first_run' =
          IF first_run.reruns = 0
          THEN [reruns |-> 1, artifacts |-> artifacts, storage |-> storage, exc |-> exc]
          ELSE [first_run EXCEPT !.reruns = @ + 1]
    /\ pc' = "run" /\ run_idx' = 1 /\ run_step' = "process" /\ exc' = NoExc
    /\ UNCHANGED <<path_kind, raw_files, meta_files, storage, has_storage, files_read,
                   process_log, artifacts, otherVars>>

NextTwice == Next \/ Rerun

SpecTwice == Init /\ [][NextTwice]_vars

----------------------------------------------------------------------------
(* Crawler.find_articles: Crawler(config) has set urls = [], the loop over *)
(* the seed URLs requests each page and examines its link elements.       *)

\* the href attribute of a link element: empty or a URL, enumerated in
\* full; a missing attribute (None) stands in the sample pages below
Hrefs == {"", "u1", "u2"}

\* a response: its status code and the href of each element that
\* find_all('a', class_='tapenews-list-item') yields, in document order
Page(status_code, hrefs) == [status_code |-> status_code, hrefs |-> hrefs]

\* pages that answer 200 hold any links; of the pages that answer with another
\* status, whose links are never looked at, two are taken
Pages ==
    {Page(200, h) : h \in SeqsUpTo(Hrefs, MaxLinks)}
    \cup {Page(200, <<None>>), Page(200, <<None, "u1">>)}
    \cup {Page(404, <<>>), Page(404, <<"u1", "u2">>)}

\* Crawler._extract_url
extract_url(href) == IF href # None /\ href # "" THEN href ELSE ""

Contains(seq, x) == \E k \in 1..Len(seq) : seq[k] = x

InitCrawler ==
    /\ pages \in SeqsUpTo(Pages, MaxSeeds)
    /\ total_articles \in 1..MaxArticles
    /\ crawler = [pc |-> "for_seed", seed_idx |-> 1, elem_idx |-> 0, urls |-> <<>>,
                  requested |-> <<>>]
    /\ tag_mapping = DefaultMapping
    /\ IdlePipeline /\ IdleConv /\ IdleToken /\ IdleProcess

crawlerRest == <<pages, total_articles, pipelineVars, tag_mapping, convVars, tokenVars,
                 processVars>>

\* the next seed URL is requested (requested notes how many URLs are held at
\* that moment) and the status of the response is tested
Request ==
    /\ crawler.pc = "for_seed" /\ crawler.seed_idx <= Len(pages)
    /\ LET response == pages[crawler.seed_idx]
           req == Append(crawler.requested, Len(crawler.urls))
       IN crawler' =
            IF response.status_code = 200
            THEN [crawler EXCEPT !.requested = req, !.pc = "for_elem", !.elem_idx = 1]
            ELSE [crawler EXCEPT !.requested = req, !.seed_idx = @ + 1]
    /\ UNCHANGED crawlerRest

\* ExamineElem with the limit tested by ">"
ExamineElem_Greater ==
    /\ crawler.pc = "for_elem"
    /\ crawler.elem_idx <= Len(pages[crawler.seed_idx].hrefs)
    /\ LET elem == pages[crawler.seed_idx].hrefs[crawler.elem_idx]
           article_url == extract_url(elem)
       IN crawler' =
            IF Len(crawler.urls) > total_articles
            THEN [crawler EXCEPT !.pc = "returned"]
            ELSE IF article_url = "" \/ Contains(crawler.urls, article_url)
            THEN [crawler EXCEPT !.elem_idx = @ + 1]
            ELSE [crawler EXCEPT !.elem_idx = @ + 1, !.urls = Append(@, article_url)]
    /\ UNCHANGED crawlerRest

\* one pass of the loop over the link elements of the page
ExamineElem ==
    /\ crawler.pc = "for_elem"
    /\ crawler.elem_idx <= Len(pages[crawler.seed_idx].hrefs)
    /\ LET elem == pages[crawler.seed_idx].hrefs[crawler.elem_idx]
           article_url == extract_url(elem)
       IN crawler' =
            IF Len(crawler.urls) >= total_articles
            THEN [crawler EXCEPT !.pc = "returned"]
            ELSE IF article_url = "" \/ Contains(crawler.urls, article_url)
            THEN [crawler EXCEPT !.elem_idx = @ + 1]
            ELSE [crawler EXCEPT !.elem_idx = @ + 1, !.urls = Append(@, article_url)]
    /\ UNCHANGED crawlerRest

\* the loop over the link elements ends: on to the next seed URL
ElemsDone ==
    /\ crawler.pc = "for_elem"
    /\ crawler.elem_idx > Len(pages[crawler.seed_idx].hrefs)
    /\ crawler' = [crawler EXCEPT !.pc = "for_seed", !.seed_idx = @ + 1]
    /\ UNCHANGED crawlerRest

\* the loop over the seed URLs ends: find_articles returns
SeedsDone ==
    /\ crawler.pc = "for_seed" /\ crawler.seed_idx > Len(pages)
    /\ crawler' = [crawler EXCEPT !.pc = "returned"]
    /\ UNCHANGED crawlerRest

NextCrawler == Request \/ ExamineElem \/ ElemsDone \/ SeedsDone

SpecCrawler == InitCrawler /\ [][NextCrawler]_vars

----------------------------------------------------------------------------
(* Claims about dataset validation (checked under Spec) *)

RawIds == Glob(raw_files)
MetaIds == Glob(meta_files)

\* two neighbours of the ascending order of S differ by more than 1
GapIn(S) ==
    \E a \in S, b \in S : b - a > 1 /\ ~(\E c \in S : a < c /\ c < b)

CountsDiffer == Cardinality(MetaIds) # Cardinality(RawIds)
ZeroByteFile == (\E i \in Ids : raw_files[i] = "empty") \/ (\E i \in Ids : meta_files[i] = "empty")
Inconsistent == CountsDiffer \/ GapIn(RawIds) \/ GapIn(MetaIds) \/ ZeroByteFile

ValidationErrors ==
    {"FileNotFoundError", "NotADirectoryError", "EmptyDirectoryError",
     "InconsistentDatasetError"}
ValidationFailed == exc.type \in ValidationErrors

\* C1: for an existing directory with at least one raw file, construction
\* raises InconsistentDataset exactly when the counts differ, or the sorted
\* raw or meta ids have a gap > 1, or some file is zero bytes; in every other
\* case validation passes and the registry is created, also when the raw and
\* meta id sets differ or the smallest id is not 1.
C1_InconsistentExactlyWhen ==
    (pc # "init" /\ path_kind = "dir" /\ RawIds # {}) =>
        /\ Inconsistent <=> (exc.type = "InconsistentDatasetError")
        /\ Inconsistent => pc = "failed" /\ ~has_storage
        /\ ~Inconsistent => has_storage /\ ~ValidationFailed

\* raw {1,2} with meta {3,4} has been accepted and scanned
C1_Witness ==
    /\ pc = "run" /\ RawIds = {1, 2} /\ MetaIds = {3, 4}
    /\ {storage[i].id : i \in 1..Len(storage)} = {1, 2}

\* the checks of the validation in their order, as conditions on the dataset
Violated(k) ==
    CASE k = 1 -> path_kind = "missing"
      [] k = 2 -> path_kind # "dir"
      [] k = 3 -> RawIds = {}
      [] k = 4 -> CountsDiffer
      [] k = 5 -> GapIn(RawIds)
      [] k = 6 -> GapIn(MetaIds)
      [] k = 7 -> ZeroByteFile

ErrorOfCheck(k) ==
    CASE k = 1 -> Exc("FileNotFoundError", "No such file or directory")
      [] k = 2 -> Exc("NotADirectoryError", "Not a directory")
      [] k = 3 -> Exc("EmptyDirectoryError", "Directory is empty")
      [] k = 4 -> Exc("InconsistentDatasetError", "Number of meta and raw files is not equal")
      [] k = 5 -> Exc("InconsistentDatasetError", "Article IDs are not sequential")
      [] k = 6 -> Exc("InconsistentDatasetError", "Article IDs in meta data are not sequential")
      [] k = 7 -> Exc("InconsistentDatasetError", "")

ViolatedChecks == {k \in 1..7 : Violated(k)}

\* C2: the checks are applied in the order exists, is a directory, has a raw
\* file, counts equal, no gap in the raw ids, no gap in the meta ids, no
\* zero-byte file; the error raised is that of the earliest violated check.
C2_EarliestViolatedCheck ==
    pc # "init" =>
        IF ViolatedChecks = {}
        THEN ~ValidationFailed /\ has_storage
        ELSE /\ pc = "failed"
             /\ exc = ErrorOfCheck(CHOOSE k \in ViolatedChecks :
                                       \A j \in ViolatedChecks : k <= j)

\* a directory holding only meta files, two of them apart and one empty:
\* EmptyDirectory is raised although three later checks are violated too
C2_Witness ==
    /\ pc = "failed" /\ exc.type = "EmptyDirectoryError"
    /\ {4, 6, 7} \subseteq ViolatedChecks

\* C3: when construction fails with a validation error no raw file has been
\* read, no registry exists, no article has been processed and no artifact
\* has been written; the registry is built only after every check passed.
C3_FailFast ==
    /\ ValidationFailed =>
          /\ pc = "failed" /\ ~has_storage /\ storage = <<>> /\ files_read = {}
          /\ process_log = <<>> /\ DOMAIN artifacts = {}
    /\ (has_storage \/ files_read # {} \/ storage # <<>>) => ViolatedChecks = {}

\* a dataset with raw and meta files whose validation failed
C3_Witness ==
    /\ pc = "failed" /\ exc.type = "InconsistentDatasetError"
    /\ RawIds # {} /\ \E i \in RawIds : raw_files[i] = "full"

----------------------------------------------------------------------------
(* Claims about run() (checked under Spec) *)

ArtifactKinds == {"cleaned", "conllu", "conllu_tags"}
RegistryIds == [i \in 1..Len(storage) |-> storage[i].id]
Logged(id) == {i \in 1..Len(process_log) : process_log[i] = id}
AllPersisted == DOMAIN artifacts = RawIds \X ArtifactKinds

\* C4 as stated: every article is processed exactly once, in ascending
\* article-id order, and its three artifacts are persisted.
C4_AscendingIdOrder ==
    pc = "done" =>
        /\ process_log = sorted(RawIds)
        /\ AllPersisted

\* C4 as amended: every article of the registry is processed exactly once,
\* in the order of the registry (the order in which the directory listing
\* gave the raw files), and its three artifacts are persisted.
C4_RegistryOrder ==
    /\ \A id \in Ids : Cardinality(Logged(id)) <= 1
    /\ pc = "done" =>
          /\ process_log = RegistryIds
          /\ \A id \in RawIds : Cardinality(Logged(id)) = 1
          /\ AllPersisted

\* a finished run that did not go by ascending id
C4_Witness ==
    /\ pc = "done" /\ Len(process_log) = 3
    /\ process_log[1] > process_log[2]

ProcessingErrors == {"TypeError", "KeyError", "AnalyzerError"}

\* the exception processing a text of the model raises
RaisedBy(text) ==
    CASE text = TextKeyError -> "KeyError"
      [] text = TextTypeError -> "TypeError"
      [] text = TextAnalyzerFails -> "AnalyzerError"
      [] OTHER -> "none"

NoArtifactOf(id) == \A k \in ArtifactKinds : <<id, k>> \notin DOMAIN artifacts

\* C5: an exception of the analyzer or of the tag conversion raised while an
\* article is processed leaves run() as it is and stops it: the failing
\* article has none of its three artifacts, no later article is processed
\* or written, and no failure is passed over.
C5_FailureAbortsRun ==
    /\ \A i \in 1..Len(process_log) :
          RaisedBy(storage[i].text) # "none" =>
              /\ pc = "failed" /\ i = Len(process_log) /\ i = run_idx
              /\ exc.type = RaisedBy(storage[i].text)
    /\ exc.type \in ProcessingErrors =>
          /\ pc = "failed" /\ run_idx \in 1..Len(storage)
          /\ Len(process_log) = run_idx
          /\ process_log[run_idx] = storage[run_idx].id
          /\ NoArtifactOf(storage[run_idx].id)
          /\ \A j \in (run_idx + 1)..Len(storage) :
                Logged(storage[j].id) = {} /\ NoArtifactOf(storage[j].id)

\* the second of three articles raised KeyError
C5_Witness ==
    /\ pc = "failed" /\ exc.type = "KeyError"
    /\ run_idx = 2 /\ Len(storage) = 3
    /\ ~NoArtifactOf(storage[1].id)

----------------------------------------------------------------------------
(* Claims about the converter (checked under SpecConv) *)

\* the category the i-th tag token of tl is assigned to, or None: the first
\* category of the priority order whose table has the token and which no
\* earlier token was assigned to
RECURSIVE AssignedTo(_, _)
AssignedTo(tl, i) ==
    LET free == {k \in 1..Len(CategoryOrder) :
                    /\ tl[i] \in DOMAIN tag_mapping[CategoryOrder[k]]
                    /\ \A j \in 1..(i - 1) : AssignedTo(tl, j) # CategoryOrder[k]}
    IN IF free = {} THEN None
       ELSE CategoryOrder[CHOOSE k \in free : \A m \in free : k <= m]

ByName == <<animacy, case, gender, number, tense>>

\* C9: the tag tokens are taken in order of appearance; each goes to the
\* first category of (case, number, gender, animacy, tense) whose table has
\* it and which is not filled yet, so a category holds at most one value;
\* the output is the category=value pairs joined with '|' in the order of
\* the category names, and is empty when nothing resolves.
C9_PriorityAndSortedOutput ==
    conv_out.done =>
        LET tl == re_findall(GrLower, gr_in)
            filled == {c \in DOMAIN FullTable : \E i \in 1..Len(tl) : AssignedTo(tl, i) = c}
            tokenOf(c) == CHOOSE i \in 1..Len(tl) : AssignedTo(tl, i) = c
            names == SelectSeq(ByName, LAMBDA c : c \in filled)
        IN /\ DOMAIN conv_out.ud_tags = filled
           /\ \A c \in filled : conv_out.ud_tags[c] = tag_mapping[c][tl[tokenOf(c)]]
           /\ conv_out.tags =
                 Join(<<"|">>, [n \in 1..Len(names) |->
                                  <<names[n], "=", conv_out.ud_tags[names[n]]>>])
           /\ (filled = {} => conv_out.tags = <<>>)

\* three equal tokens found in every table fill case, number and gender in
\* turn and come out in the order Case, Gender, Number
C9_Witness ==
    /\ conv_out.done
    /\ gr_in = <<"m", ",", "m", ",", "m">>
    /\ conv_out.tags = <<"Case", "=", "Nom", "|", "Gender", "=", "Masc", "|",
                         "Number", "=", "Sing">>

----------------------------------------------------------------------------
(* Claims about _process (checked under SpecProcess and SpecToken) *)

\* the text begins with a word character or with a period
StartsKept(text) == text # <<>> /\ (IsWordChar(text[1]) \/ text[1] = ".")

\* the whole text is word characters, or the text is a single period
FullMatches(text) ==
    \/ text # <<>> /\ \A i \in 1..Len(text) : IsWordChar(text[i])
    \/ text = <<".">>

KeptUpTo(raw, i) == {j \in 1..i : StartsKept(raw[j].text)}
NthKept(raw, t) ==
    CHOOSE i \in 1..Len(raw) : StartsKept(raw[i].text) /\ Cardinality(KeptUpTo(raw, i)) = t

\* C6: in every sentence the token positions are 1..n in token order, n the
\* number of kept tokens (discarded raw tokens take no position, the count
\* restarts in every sentence); the sentence positions are 0..m-1 in the
\* order of the sentence splitter.
C6_Positions ==
    (process_out.done /\ process_out.exc = "none") =>
        /\ Len(process_out.sentences) = Len(text_in)
        /\ \A s \in 1..Len(process_out.sentences) :
              LET toks == process_out.sentences[s].tokens
                  raw == text_in[s].analysis
              IN /\ process_out.sentences[s].position = s - 1
                 /\ Len(toks) = Cardinality(KeptUpTo(raw, Len(raw)))
                 /\ \A t \in 1..Len(toks) :
                       /\ toks[t].position = t
                       /\ toks[t].text = RemoveSpaces(raw[NthKept(raw, t)].text)

\* the long sentence loses its comma and keeps positions 1, 2, 3; the
\* second sentence starts again at 1 after a discarded token
C6_Witness ==
    /\ process_out.done /\ process_out.exc = "none"
    /\ Len(text_in) = 2 /\ text_in[1] = LongSentence
    /\ Len(text_in[2].analysis) = 2 /\ text_in[2].analysis[1].text = <<",">>
    /\ Len(process_out.sentences[1].tokens) = 3
    /\ Len(process_out.sentences[2].tokens) = 1
    /\ process_out.sentences[2].tokens[1].position = 1

Kept == token_out.kind # "skip"

\* C7 as stated: a raw token is kept exactly when its whole text is word
\* characters or is the single character '.'.
C7_WholeTextFilter == token_out.done => (Kept <=> FullMatches(token_in.text))

\* C7 as amended: a raw token is kept exactly when its text begins with a
\* word character or with a period, whatever follows.
C7_PrefixFilter == token_out.done => (Kept <=> StartsKept(token_in.text))

\* a period followed by a space is kept
C7_Witness ==
    /\ token_out.done /\ token_in.text = <<".", " ">>
    /\ token_out.kind = "token" /\ token_out.conllu_token.text = <<".">>

HasCandidate == token_in.has_analysis /\ token_in.analysis # <<>>
HasLetterOrDigit(text) ==
    \E i \in 1..Len(text) : IsAlphaChar(text[i]) \/ IsDigitChar(text[i])

\* the classification rule of C8 for a token of text t
ClassifiedAs(t) ==
    LET tok == token_out.conllu_token IN
    IF isalpha(t) /\ HasCandidate
    THEN /\ tok.lemma = token_in.analysis[1].lex
         /\ tok.pos = convert_pos(token_in.analysis[1].gr).val
         /\ tok.tags = convert_morphological_tags(token_in.analysis[1].gr)
    ELSE IF isalpha(t) THEN tok.lemma = t /\ tok.pos = "X" /\ tok.tags = <<>>
    ELSE IF isdigit(t) THEN tok.lemma = t /\ tok.pos = "NUM" /\ tok.tags = <<>>
    ELSE tok.lemma = t /\ tok.pos = "PUNCT" /\ tok.tags = <<>>

\* C8 as stated: the rule is applied to the raw surface text, and a token
\* falling in the last case has no letter and no digit.
C8_RawTextClassification ==
    (token_out.done /\ token_out.kind = "token") =>
        /\ ClassifiedAs(token_in.text)
        /\ token_out.conllu_token.pos = "PUNCT" => ~HasLetterOrDigit(token_in.text)

\* C8 as amended: the rule is applied to the surface text with its spaces
\* removed, which is also the text of the token; the last case takes every
\* remaining kept token, mixed ones such as "a1" included.
C8_StrippedTextClassification ==
    /\ (token_out.done /\ token_out.kind = "token") =>
          /\ token_out.conllu_token.text = RemoveSpaces(token_in.text)
          /\ ClassifiedAs(RemoveSpaces(token_in.text))
    /\ (token_out.done /\ Kept) =>
          (token_out.kind = "raise" <=>
              /\ isalpha(RemoveSpaces(token_in.text)) /\ HasCandidate
              /\ convert_pos(token_in.analysis[1].gr).exc # "none")

\* a letter followed by a digit is classified PUNCT
C8_Witness ==
    /\ token_out.done /\ token_out.kind = "token"
    /\ token_in.text = <<"a", "1">>
    /\ token_out.conllu_token.pos = "PUNCT"

\* the fields of a serialised line: the pieces between the tabs
RECURSIVE SplitTabs(_, _)
SplitTabs(line, cur) ==
    IF line = <<>> THEN <<cur>>
    ELSE IF Head(line) = "\t" THEN <<cur>> \o SplitTabs(Tail(line), <<>>)
         ELSE SplitTabs(Tail(line), Append(cur, Head(line)))

\* the line of the serialised token whose feats field is f
LineWithFeats(f) ==
    LET tok == token_out.conllu_token IN
    str(tok.position) \o <<"\t">> \o tok.text \o <<"\t">> \o tok.lemma
        \o <<"\t", tok.pos, "\t", "_", "\t">> \o f
        \o <<"\t", "0", "\t", "root", "\t", "_", "\t", "_">>

FeatsRule ==
    /\ token_out.plain = LineWithFeats(<<"_">>)
    /\ token_out.tagged =
          LineWithFeats(IF token_out.conllu_token.tags = <<>> THEN <<"_">>
                        ELSE token_out.conllu_token.tags)

\* C10 as stated: feats is "_" when features are off or tags is empty, and
\* the tags otherwise; tokens whose pos is NUM, PUNCT or X have feats "_" in
\* both serialisations.
C10_FeatsByPos ==
    token_out.serialised =>
        /\ FeatsRule
        /\ token_out.conllu_token.pos \in {"NUM", "PUNCT", "X"} =>
              token_out.tagged = LineWithFeats(<<"_">>)

\* C10 as amended: feats is "_" when features are off or tags is empty, and
\* the tags otherwise; tokens classified by the all-digit, the remaining or
\* the no-candidate case have feats "_" in both serialisations.
C10_FeatsByCase ==
    token_out.serialised =>
        /\ FeatsRule
        /\ ~(isalpha(RemoveSpaces(token_in.text)) /\ HasCandidate) =>
              token_out.tagged = LineWithFeats(<<"_">>)

\* a word the table maps to NUM carries its case in the tagged line only
C10_Witness ==
    /\ token_out.serialised
    /\ token_out.conllu_token.pos = "NUM"
    /\ token_out.tagged = LineWithFeats(<<"Case", "=", "Nom">>)
    /\ token_out.plain = LineWithFeats(<<"_">>)

TenFields(line) ==
    LET f == SplitTabs(line, <<>>)
        tok == token_out.conllu_token
    IN /\ Len(f) = 10
       /\ f[1] = str(tok.position) /\ f[2] = tok.text /\ f[3] = tok.lemma
       /\ f[4] = <<tok.pos>> /\ f[5] = <<"_">>
       /\ f[7] = <<"0">> /\ f[8] = <<"root">> /\ f[9] = <<"_">> /\ f[10] = <<"_">>

\* C11: every token line of a token built by the pipeline has exactly 10
\* tab-separated fields, in the order position, text, lemma, pos, "_",
\* feats, "0", "root", "_", "_", whatever the kind of the token and whether
\* or not features are included.
C11_TenTabSeparatedFields ==
    token_out.serialised => TenFields(token_out.plain) /\ TenFields(token_out.tagged)

----------------------------------------------------------------------------
(* Claim about running the pipeline twice (checked under SpecTwice) *)

RunEnded == pc \in {"done", "failed"}

\* C12: when run() is called again over the unchanged registry, the call ends
\* as the first one did, every artifact it leaves is the one the first call
\* left, and every article holds sentences equal to those the first call
\* attached (they replace the earlier ones, they are not appended to them)
C12_SecondRunEqualsFirst ==
    (first_run.reruns >= 1 /\ RunEnded) =>
        /\ artifacts = first_run.artifacts
        /\ storage = first_run.storage
        /\ exc = first_run.exc

\* a second call has returned, having rewritten artifacts of an article with sentences
C12_Witness ==
    /\ first_run.reruns >= 1 /\ pc = "done"
    /\ \E j \in 1..Len(storage) :
          /\ storage[j].has_sentences /\ Len(storage[j].sentences) >= 2
          /\ \A k \in ArtifactKinds : <<storage[j].id, k>> \in DOMAIN artifacts

----------------------------------------------------------------------------
(* Claim about the OpenCorpora converter (checked under SpecOC) *)

\* the structured fields in the order they are declared
DeclaredFields == <<"case", "number", "gender", "animacy">>
CategoryOf(f) ==
    CASE f = "case" -> case [] f = "number" -> number
      [] f = "gender" -> gender [] f = "animacy" -> animacy

\* the field is present and its value is in the table of its category
Mappable(f) ==
    /\ oc_tags[f] # Absent
    /\ CategoryOf(f) \in DOMAIN tag_mapping
    /\ oc_tags[f] \in DOMAIN tag_mapping[CategoryOf(f)]

PairOf(f) == <<CategoryOf(f), "=", tag_mapping[CategoryOf(f)][oc_tags[f]]>>

\* str.split('|'): the pieces of a "|"-joined string
RECURSIVE SplitBars(_, _)
SplitBars(str_, cur) ==
    IF str_ = <<>> THEN <<cur>>
    ELSE IF Head(str_) = "|" THEN <<cur>> \o SplitBars(Tail(str_), <<>>)
    ELSE SplitBars(Tail(str_), Append(cur, Head(str_)))

\* C13: the OpenCorpora converter's feature string holds one category=value
\* pair for each of the fields case, number, gender, animacy that is present
\* and whose value is in its category's table, nothing for the other fields,
\* and the pairs stand in declaration order, joined with "|"
C13_DeclarationOrder ==
    oc_out.done =>
        LET kept == SelectSeq(DeclaredFields, Mappable)
        IN IF kept = <<>> THEN oc_out.tags = <<>>
           ELSE LET pieces == SplitBars(oc_out.tags, <<>>)
                IN /\ Len(pieces) = Len(kept)
                   /\ \A k \in 1..Len(kept) : pieces[k] = PairOf(kept[k])

\* a tag whose pairs come out in an order that is not the alphabetical one,
\* with one field absent and one field unmappable
C13_Witness ==
    /\ oc_out.done
    /\ Mappable("number") /\ Mappable("animacy")
    /\ oc_tags.case = Absent
    /\ oc_tags.gender # Absent /\ ~Mappable("gender")
    /\ oc_out.tags = <<number, "=", "Plur", "|", animacy, "=", "Anim">>

----------------------------------------------------------------------------
(* Claim about Crawler.find_articles (checked under SpecCrawler) *)

Limit == total_articles

NoDuplicateUrl ==
    \A j, k \in 1..Len(crawler.urls) : j # k => crawler.urls[j] # crawler.urls[k]
NoEmptyUrl == \A k \in 1..Len(crawler.urls) : crawler.urls[k] \notin {"", None}
AtMostLimit == Len(crawler.urls) <= Limit

\* every URL held stands on a requested page that answered 200
OnlyFrom200 ==
    \A k \in 1..Len(crawler.urls) :
        \E j \in 1..Len(crawler.requested) :
            pages[j].status_code = 200 /\ Contains(pages[j].hrefs, crawler.urls[k])

\* the seed URLs requested when the limit had been reached
RequestedAtLimit == {k \in 1..Len(crawler.requested) : crawler.requested[k] >= Limit}

====
